---- MODULE Spec2Model ----
(***************************************************************************)
(* Terminal chess client (src/client_local.py): the reader thread          *)
(* (read_loop), the interactive loop and its shutdown (main), the board    *)
(* renderer (render_board) and the move normalizer (parse_algebraic).      *)
(*                                                                         *)
(* Data model.  A Python str is a sequence of one-character strings;       *)
(* "\n", "\r" and "ESC" (the byte 0x1b) are single characters, and so is   *)
(* the parameter part of an ANSI control sequence ("[44m"), which no code  *)
(* of the program looks into.  The empty str is << >>.                     *)
(***************************************************************************)
EXTENDS Integers, Sequences, FiniteSets, TLC

VARIABLES
    rpc,          \* reader thread position: "test" (the while test, 130), "read"
                  \* (blocked in readline, 131), "frame" (blocked in readline
                  \* inside the for loop, 144), "closed" (break, 135), "stopped"
                  \* (while test false), "error" (handler 194-197)
    board_lines,  \* read_loop local board_lines (142, 147)
    player_color, \* state.get('player_color'): a str, or NoColor while the key is absent
    ascii_only,   \* state['ascii_only']
    last_board,   \* state['last_board']: [some |-> FALSE] is None
    stop_event,   \* threading.Event stop_event: is_set()
    mpc,          \* main thread position (see the actions)
    ending,       \* how the interactive loop ended ("none" while it runs)
    quit_try,     \* outcome of the QUIT write of the finally block (328-332)
    sock,         \* the client socket s: "open" or "closed" (337)
    srv_eof,      \* the inbound stream has ended: readline() returns ''
    odd,          \* number of irregular in-frame lines the server has sent
    colorama,     \* whether the colorama import succeeded (12-19)
    emit,         \* what the last step printed on the terminal
    sent,         \* what the last step wrote to sock_out (<< >>: nothing)
    typed,        \* what input() returned to the last step (NoInput: nothing)
    probe         \* input/result cell of the pure-function specifications

readerVars == <<rpc, board_lines, player_color, last_board>>
mainVars   == <<mpc, ending, quit_try, sock, ascii_only>>
envVars    == <<srv_eof, odd, colorama>>
vars == <<rpc, board_lines, player_color, ascii_only, last_board, stop_event,
          mpc, ending, quit_try, sock, srv_eof, odd, colorama, emit, sent, typed, probe>>

(***************************************************************************)
(* Bounds of the model.                                                    *)
(***************************************************************************)
\* irregular lines (not the snapshot row of their position) the server may
\* put inside board frames during one session
MaxOdd == 1

\* longest text handed to parse_algebraic in the function-level runs
MaxParseLen == 5

(***************************************************************************)
(* Python str helpers.                                                     *)
(***************************************************************************)
UC == <<"A","B","C","D","E","F","G","H","I","J","K","L","M",
        "N","O","P","Q","R","S","T","U","V","W","X","Y","Z">>
LC == <<"a","b","c","d","e","f","g","h","i","j","k","l","m",
        "n","o","p","q","r","s","t","u","v","w","x","y","z">>

Range(s) == {s[i] : i \in 1..Len(s)}

\* str.lower() / str.upper() of one character
LowerChar(c) == IF \E i \in 1..Len(UC) : UC[i] = c
                THEN LC[CHOOSE i \in 1..Len(UC) : UC[i] = c] ELSE c
UpperChar(c) == IF \E i \in 1..Len(LC) : LC[i] = c
                THEN UC[CHOOSE i \in 1..Len(LC) : LC[i] = c] ELSE c
Lower(s) == [i \in 1..Len(s) |-> LowerChar(s[i])]
Upper(s) == [i \in 1..Len(s) |-> UpperChar(s[i])]

\* str.islower(): some cased character, and no upper-case one
IsLower(s) == (\E i \in 1..Len(s) : s[i] \in Range(LC))
              /\ (\A i \in 1..Len(s) : s[i] \notin Range(UC))

Whitespace == {" ", "\t", "\n", "\r"}

RECURSIVE LStrip(_, _)
LStrip(s, cs) == IF s # <<>> /\ Head(s) \in cs THEN LStrip(Tail(s), cs) ELSE s
RECURSIVE RStrip(_, _)
RStrip(s, cs) == IF s # <<>> /\ s[Len(s)] \in cs
                 THEN RStrip(SubSeq(s, 1, Len(s) - 1), cs) ELSE s
\* str.strip()
Strip(s) == RStrip(LStrip(s, Whitespace), Whitespace)

\* s.startswith(p)
StartsWith(s, p) == Len(s) >= Len(p) /\ SubSeq(s, 1, Len(p)) = p

\* s[n:]
From(s, n) == SubSeq(s, n + 1, Len(s))

\* s.split(" ", 1)[1] for s that contains a space
AfterFirstSpace(s) ==
    LET i == CHOOSE k \in 1..Len(s) : s[k] = " " /\ \A j \in 1..(k - 1) : s[j] # " "
    IN  From(s, i)

\* s.split(): the maximal runs of non-whitespace characters
RECURSIVE SplitAcc(_, _, _)
SplitAcc(s, cur, acc) ==
    IF s = <<>> THEN (IF cur = <<>> THEN acc ELSE Append(acc, cur))
    ELSE IF Head(s) \in Whitespace
         THEN SplitAcc(Tail(s), <<>>, IF cur = <<>> THEN acc ELSE Append(acc, cur))
         ELSE SplitAcc(Tail(s), Append(cur, Head(s)), acc)
Split(s) == SplitAcc(s, <<>>, <<>>)

\* s.replace(c, '') for a one-character c
RemoveChar(s, c) ==
    LET Keep(x) == x # c IN SelectSeq(s, Keep)

\* s.replace(p, '') for a two-character p: left to right, non-overlapping
RECURSIVE RemovePair(_, _)
RemovePair(s, p) ==
    IF Len(s) < 2 THEN s
    ELSE IF s[1] = p[1] /\ s[2] = p[2] THEN RemovePair(From(s, 2), p)
         ELSE <<Head(s)>> \o RemovePair(Tail(s), p)

\* '\n'.join(lines)
RECURSIVE Join(_)
Join(lines) ==
    IF lines = <<>> THEN <<>>
    ELSE IF Len(lines) = 1 THEN lines[1]
         ELSE lines[1] \o <<"\n">> \o Join(Tail(lines))

\* list(reversed(xs))
Reverse(xs) == [i \in 1..Len(xs) |-> xs[Len(xs) + 1 - i]]

\* ''.join(cells)
RECURSIVE Concat(_)
Concat(xs) == IF xs = <<>> THEN <<>> ELSE Head(xs) \o Concat(Tail(xs))

\* the lines of a text: text.split('\n')
LinesOf(s) ==
    LET nl     == {i \in 1..Len(s) : s[i] = "\n"}
        n      == Cardinality(nl) + 1
        pos(k) == CHOOSE q \in nl : Cardinality({r \in nl : r < q}) = k - 1
    IN  [k \in 1..n |-> SubSeq(s, IF k = 1 THEN 1 ELSE pos(k - 1) + 1,
                                  IF k = n THEN Len(s) ELSE pos(k) - 1)]

(***************************************************************************)
(* parse_algebraic (26-66).  The result is [kind, val]: kind "ok" with the *)
(* returned str, "none" for None, "raise" for an uncaught IndexError.      *)
(***************************************************************************)
FileChars == {"a","b","c","d","e","f","g","h"}
RankChars == {"1","2","3","4","5","6","7","8"}
PieceChars == {"K","Q","R","B","N"}

Ok(s)   == [kind |-> "ok", val |-> s]
None    == [kind |-> "none", val |-> <<>>]
Raises  == [kind |-> "raise", val |-> <<>>]

\* a coordinate test that accepts the bare four characters only
IsCoordinateExact(s) == Len(s) = 4 /\ s[1] \in FileChars /\ s[2] \in RankChars
                        /\ s[3] \in FileChars

\* line 34: the "already coordinate notation" test
IsCoordinate(s) == Len(s) >= 4 /\ s[1] \in FileChars /\ s[2] \in RankChars
                   /\ s[3] \in FileChars

\* line 38: the chain of replace() calls
StripMarks(s) ==
    RemovePair(RemovePair(RemovePair(RemovePair(
        RemoveChar(RemoveChar(RemoveChar(s, "x"), "+"), "#"),
        <<"=","Q">>), <<"=","R">>), <<"=","B">>), <<"=","N">>)

\* a start rank that is always white's
StartRankWhite(dest_rank) == "2"

\* line 44
StartRank(dest_rank) == IF dest_rank \in {"3","4"} THEN "2"
                        ELSE IF dest_rank \in {"5","6"} THEN "7" ELSE "2"

\* a piece test that forgets upper(): only upper-case piece letters count
PieceMoveUpperOnly(m) ==
    IF m = <<>> THEN Raises
    ELSE IF m[1] \in PieceChars
    THEN LET rest == Tail(m) IN
         IF Len(rest) >= 2 /\ rest[Len(rest) - 1] \in FileChars
                           /\ rest[Len(rest)] \in RankChars
         THEN LET dest == SubSeq(rest, Len(rest) - 1, Len(rest))
                  disambig == IF Len(rest) > 2 THEN SubSeq(rest, 1, Len(rest) - 2)
                              ELSE <<>>
              IN  IF Len(disambig) = 2 /\ disambig[1] \in FileChars
                                       /\ disambig[2] \in RankChars
                  THEN Ok(disambig \o dest)
                  ELSE None
         ELSE None
    ELSE None

\* lines 49-66, for the stripped text m
PieceMove(m) ==
    IF m = <<>> THEN Raises                      \* move_str[0] on '' (49)
    ELSE IF UpperChar(m[1]) \in PieceChars
    THEN LET rest == Tail(m) IN
         IF Len(rest) >= 2 /\ rest[Len(rest) - 1] \in FileChars
                           /\ rest[Len(rest)] \in RankChars
         THEN LET dest == SubSeq(rest, Len(rest) - 1, Len(rest))
                  disambig == IF Len(rest) > 2 THEN SubSeq(rest, 1, Len(rest) - 2)
                              ELSE <<>>
              IN  IF Len(disambig) = 2 /\ disambig[1] \in FileChars
                                       /\ disambig[2] \in RankChars
                  THEN Ok(disambig \o dest)
                  ELSE None
         ELSE None
    ELSE None

parse_algebraic(move_str) ==
    LET s == Strip(move_str) IN
    IF s = <<>> THEN None
    ELSE IF IsCoordinate(s) THEN Ok(s)
    ELSE LET m == StripMarks(s) IN
         IF Len(m) = 2 /\ m[1] \in FileChars /\ m[2] \in RankChars
         THEN Ok(<<m[1], StartRank(m[2]), m[1], m[2]>>)
         ELSE PieceMove(m)

(***************************************************************************)
(* render_board (68-124) and the names it takes from colorama (12-19).     *)
(***************************************************************************)
\* colorama's codes, or '' from the Dummy fallback (16-19)
Code(body) == IF colorama THEN <<"ESC">> \o body ELSE <<>>
Back_BLUE       == Code(<<"[44m">>)
Back_WHITE      == Code(<<"[47m">>)
Fore_YELLOW     == Code(<<"[33m">>)
Fore_BLACK      == Code(<<"[30m">>)
Fore_GREEN      == Code(<<"[32m">>)
Style_RESET_ALL == Code(<<"[0m">>)

\* UNICODE_MAP (21-24); each glyph is one character, named by its code point
UNICODE_MAP(p) ==
    CASE p = <<"P">> -> <<"U+2659">> [] p = <<"R">> -> <<"U+2656">>
      [] p = <<"N">> -> <<"U+2658">> [] p = <<"B">> -> <<"U+2657">>
      [] p = <<"Q">> -> <<"U+2655">> [] p = <<"K">> -> <<"U+2654">>
      [] p = <<"p">> -> <<"U+265F">> [] p = <<"r">> -> <<"U+265C">>
      [] p = <<"n">> -> <<"U+265E">> [] p = <<"b">> -> <<"U+265D">>
      [] p = <<"q">> -> <<"U+265B">> [] p = <<"k">> -> <<"U+265A">>
InUnicodeMap(p) == Len(p) = 1 /\ p[1] \in {"P","R","N","B","Q","K","p","r","n","b","q","k"}

Digits == <<"0","1","2","3","4","5","6","7","8","9">>
DigitVal(c) == (CHOOSE i \in 1..10 : Digits[i] = c) - 1
RECURSIVE DecVal(_)
DecVal(s) == IF s = <<>> THEN 0 ELSE 10 * DecVal(SubSeq(s, 1, Len(s) - 1)) + DigitVal(s[Len(s)])
IsDec(s) == s # <<>> /\ \A i \in 1..Len(s) : s[i] \in Range(Digits)
\* lines 99-102: int(rank), 0 on ValueError (decimal digits with an optional sign)
RankNum(rank) ==
    IF IsDec(rank) THEN DecVal(rank)
    ELSE IF rank # <<>> /\ rank[1] = "+" /\ IsDec(Tail(rank)) THEN DecVal(Tail(rank))
    ELSE IF rank # <<>> /\ rank[1] = "-" /\ IsDec(Tail(rank)) THEN 0 - DecVal(Tail(rank))
    ELSE 0

DefaultLabels == <<" "," ","a"," ","b"," ","c"," ","d"," ","e"," ","f"," ","g"," ","h">>
FlippedLabels == <<" "," ","h"," ","g"," ","f"," ","e"," ","d"," ","c"," ","b"," ","a">>

\* a colour computed from the displayed position
DarkByDisplay(file_index, rank_num, flip) == (file_index + rank_num) % 2 = 1

\* lines 105-106: the square is dark
Dark(file_index, rank_num, flip) ==
    LET actual_file == IF flip THEN 7 - file_index ELSE file_index
    IN  (actual_file + rank_num) % 2 = 1

\* lines 107-114: one cell; file_index counts from 0 as enumerate() does
Cell(piece, file_index, rank, use_unicode, colorize, flip) ==
    LET dark    == Dark(file_index, RankNum(rank), flip)
        cell_bg == IF dark THEN Back_BLUE ELSE IF colorize THEN Back_WHITE ELSE <<>>
        fg      == IF IsLower(piece) THEN Fore_YELLOW
                   ELSE IF piece # <<".">> THEN Fore_BLACK ELSE Fore_GREEN
        symbol  == IF use_unicode /\ InUnicodeMap(piece) THEN UNICODE_MAP(piece)
                   ELSE IF piece = <<".">> THEN <<" ">> ELSE piece
    IN  IF colorize
        THEN cell_bg \o fg \o <<" ">> \o symbol \o <<" ">> \o Style_RESET_ALL
        ELSE <<" ">> \o symbol \o <<" ">>

\* lines 84-116: the output line of one row
RenderRow(raw, use_unicode, colorize, flip) ==
    LET parts == Split(raw) IN
    IF Len(parts) < 9 THEN raw
    ELSE LET rank   == parts[1]
             pcs    == IF flip THEN Reverse(Tail(parts)) ELSE Tail(parts)
             cells  == [i \in 1..Len(pcs) |->
                          Cell(pcs[i], i - 1, rank, use_unicode, colorize, flip)]
         IN  rank \o <<" ">> \o Concat(cells)

\* a renderer that adds the label line to complete snapshots only
OutLinesNoDefault(ascii_lines, use_unicode, colorize, flip) ==
    LET n           == Len(ascii_lines)
        rows        == IF n = 9 THEN SubSeq(ascii_lines, 1, n - 1) ELSE ascii_lines
        board_rows  == IF flip THEN Reverse(rows) ELSE rows
        body        == [i \in 1..Len(board_rows) |->
                          RenderRow(board_rows[i], use_unicode, colorize, flip)]
        labels      == IF flip THEN FlippedLabels
                       ELSE IF Strip(ascii_lines[n]) # <<>> THEN ascii_lines[n]
                       ELSE DefaultLabels
    IN  IF n = 9 THEN body \o <<labels>> ELSE body

\* the list out_lines at line 124
OutLines(ascii_lines, use_unicode, colorize, flip) ==
    LET n           == Len(ascii_lines)
        rows        == IF n = 9 THEN SubSeq(ascii_lines, 1, n - 1) ELSE ascii_lines
        file_labels == IF n = 9 THEN ascii_lines[n] ELSE DefaultLabels
        board_rows  == IF flip THEN Reverse(rows) ELSE rows
        body        == [i \in 1..Len(board_rows) |->
                          RenderRow(board_rows[i], use_unicode, colorize, flip)]
        labels      == IF flip THEN FlippedLabels
                       ELSE IF Strip(file_labels) # <<>> THEN file_labels
                       ELSE DefaultLabels
    IN  body \o <<labels>>

render_board(ascii_lines, use_unicode, colorize, flip) ==
    Join(OutLines(ascii_lines, use_unicode, colorize, flip))

(***************************************************************************)
(* The environment: what the server may send and what the user may type.   *)
(***************************************************************************)
\* readline() results are lines with their terminator; '' (<< >>) is end of stream
EOFLine == << >>

\* a well-formed snapshot: 8 rank rows and the file-label row (70)
Snapshot == <<<<"8"," ","r"," ","n"," ","b"," ","q"," ","k"," ","b"," ","n"," ","r">>,
             <<"7"," ","p"," ","p"," ","p"," ","p"," ","p"," ","p"," ","p"," ","p">>,
             <<"6"," ","."," ","."," ","."," ","."," ","."," ","."," ","."," ",".">>,
             <<"5"," ","."," ","."," ","."," ","."," ","."," ","."," ","."," ",".">>,
             <<"4"," ","."," ","."," ","."," ","."," ","."," ","."," ","."," ",".">>,
             <<"3"," ","."," ","."," ","."," ","."," ","."," ","."," ","."," ",".">>,
             <<"2"," ","P"," ","P"," ","P"," ","P"," ","P"," ","P"," ","P"," ","P">>,
             <<"1"," ","R"," ","N"," ","B"," ","Q"," ","K"," ","B"," ","N"," ","R">>,
             <<" "," ","a"," ","b"," ","c"," ","d"," ","e"," ","f"," ","g"," ","h">>>>
SnapshotRow(i) == Snapshot[i] \o <<"\n">>

\* lines the server may send while the reader is outside a frame
IdleLines == {<<"B","O","A","R","D","\n">>,
             <<"B","O","A","R","D","\r","\n">>,
             <<"S","T","A","R","T"," ","W","H","I","T","E"," ","b","o","b","\n">>,
             <<"S","T","A","R","T"," ","B","L","A","C","K"," ","b","o","b","\n">>,
             <<"S","T","A","R","T"," ","g","r","e","e","n"," ","b","o","b","\n">>,
             <<"S","T","A","R","T"," ","\n">>,
             <<"Y","O","U","R","M","O","V","E","\n">>,
             <<"R","O","O","M"," ","k","1","\n">>,
             <<"Q","U","E","U","E"," ","1","\n">>,
             <<"R","O","O","M","_","E","X","P","I","R","E","D"," ","k","1","\n">>,
             <<"C","A","N","C","E","L","L","E","D"," ","k","1","\n">>,
             <<"O","P","P","O","N","E","N","T","_","M","O","V","E"," ","e","7","e","5","\n">>,
             <<"E","R","R","O","R"," ","b","a","d","\n">>,
             <<"E","N","D"," ","w","i","n","\n">>,
             <<"h","e","l","l","o","\n">>,
             <<"\n">>}

\* the lines among them that a match consists of
SessionLines == {<<"B","O","A","R","D","\n">>,
                 <<"S","T","A","R","T"," ","W","H","I","T","E"," ","b","o","b","\n">>,
                 <<"S","T","A","R","T"," ","B","L","A","C","K"," ","b","o","b","\n">>,
                 <<"Y","O","U","R","M","O","V","E","\n">>}

FrameOnlyLines == {<<"B","O","A","R","D","\n">>}

\* lines the server may send inside a frame in place of the snapshot row
OddLines == {<<"B","O","A","R","D","\n">>,
            <<"S","T","A","R","T"," ","B","L","A","C","K"," ","b","o","b","\n">>}

\* what input() may return (278)
UserLines == {<<"q","u","i","t">>,
             <<"E","X","I","T">>,
             <<"f","f">>,
             <<"f","o","r","f","e","i","t">>,
             <<"a","s","c","i","i">>,
             <<"u","n","i","c","o","d","e">>,
             <<"r","e","d","r","a","w">>,
             <<"e","4">>,
             <<"e","2","e","4">>,
             <<"N","b","1","d","7">>,
             <<"N","c","3">>,
             <<"z","z">>,
             <<"x">>,
             <<"M","O","V","E"," ","N","c","3">>,
             <<"m","o","v","e"," ","e","4">>,
             <<"N","A","M","E"," ","b","o","b">>,
             <<>>,
             <<" ","e","5"," ">>,
             <<"Q","x","e","5","+">>,
             <<"=","Q">>,
             <<"A","S","C","I","I">>,
             <<"U","n","i","c","o","d","e">>,
             <<"R","e","d","r","a","w">>,
             <<"F","F">>,
             <<"F","o","r","f","e","i","t">>}

FewUserLines == {<<"q","u","i","t">>, <<"a","s","c","i","i">>, <<"r","e","d","r","a","w">>,
                 <<"e","4">>, <<"x">>}

\* the match-mode command of lines 258-273
ModeCommands == {<<"F","I","N","D">>,
                <<"C","R","E","A","T","E">>,
                <<"C","R","E","A","T","E"," ","k","1">>,
                <<"J","O","I","N"," ","k","1">>,
                <<"C","O","M","P","U","T","E","R">>}

S_NAME == <<"N","A","M","E"," ","a","l">>
S_QUIT == <<"Q","U","I","T">>
\* the forfeit command sent as it was typed
S_FF_AsTyped == <<"f","f">>
S_FF   == <<"F","F">>
S_MOVE_ == <<"M","O","V","E"," ">>

\* a loop that stops one line early
FrameLenShort == 9 - 1

\* range(9) at line 143
FrameLen == 9

NoColor == <<"<absent>">>
NoInput == <<"<no input>">>
NoBoard == [some |-> FALSE, text |-> << >>]
Some(text) == [some |-> TRUE, text |-> text]
\* truthiness of state['last_board'] (291, 297, 302)
Truthy(b) == b.some /\ b.text # << >>

Quiet == [notes |-> {}, text |-> << >>]
Say(notes, text) == [notes |-> notes, text |-> text]

(***************************************************************************)
(* read_loop (127-197).                                                    *)
(***************************************************************************)
\* the daemon reader thread runs only while the process lives
ReaderAlive == mpc \notin {"exited", "crashed"}

\* lines 159-193: the notice printed for a line that is not the frame marker
EventNotice(line) ==
    IF StartsWith(line, <<"R","O","O","M"," ">>) THEN Say({"room created"}, AfterFirstSpace(line))
    ELSE IF StartsWith(line, <<"Q","U","E","U","E"," ">>) THEN Say({"queued"}, From(line, 6))
    ELSE IF StartsWith(line, <<"R","O","O","M","_","E","X","P","I","R","E","D"," ">>) THEN Say({"room expired"}, AfterFirstSpace(line))
    ELSE IF StartsWith(line, <<"C","A","N","C","E","L","L","E","D"," ">>) THEN Say({"room cancelled"}, AfterFirstSpace(line))
    ELSE IF StartsWith(line, <<"S","T","A","R","T"," ">>) THEN Say({"match started"}, line)
    ELSE IF line = <<"Y","O","U","R","M","O","V","E">> THEN Say({"your move"}, << >>)
    ELSE IF StartsWith(line, <<"O","P","P","O","N","E","N","T","_","M","O","V","E"," ">>) THEN Say({"opponent"}, From(line, 14))
    ELSE IF StartsWith(line, <<"E","R","R","O","R"," ">>) THEN Say({"error"}, From(line, 6))
    ELSE IF StartsWith(line, <<"E","N","D"," ">>) THEN Say({"game ended"}, From(line, 4))
    ELSE Say({"verbatim"}, line)

\* lines 177-181: state['player_color'] after the line
EventColor(line, old) ==
    IF StartsWith(line, <<"S","T","A","R","T"," ">>) /\ Len(Split(line)) >= 2
    THEN Upper(Split(line)[2]) ELSE old

\* lines 149-155: the text rendered for the buffered lines
Rendered(lines) ==
    LET flip == (player_color = <<"B","L","A","C","K">>) IN
    IF ascii_only THEN Join(lines)
    ELSE render_board(lines, TRUE, TRUE, flip)

\* lines 149-158: render, store, print, back to the while test
FinishFrame(lines) ==
    /\ last_board' = Some(Rendered(lines))
    /\ emit' = Say({"board"}, Rendered(lines))
    /\ rpc' = "test"

\* line 130: the while test
ReaderLoopTest ==
    /\ ReaderAlive /\ rpc = "test"
    /\ rpc' = IF stop_event THEN "stopped" ELSE "read"
    /\ emit' = Quiet /\ sent' = << >> /\ typed' = NoInput
    /\ UNCHANGED <<board_lines, player_color, last_board, stop_event, mainVars, envVars, probe>>

\* lines 131, 136-193: one line, drawn from `offered`, read and handled
\* outside a frame
IdleRead(offered) ==
    /\ ReaderAlive /\ rpc = "read"
    /\ sock = "open" /\ ~srv_eof
    /\ \E raw \in offered :
         LET line == RStrip(raw, {"\n", "\r"}) IN
         IF line = <<"B","O","A","R","D">>
         THEN /\ rpc' = "frame"
              /\ board_lines' = << >>
              /\ emit' = Say({"clear screen"}, << >>)
              /\ UNCHANGED player_color
         ELSE /\ rpc' = "test"
              /\ player_color' = EventColor(line, player_color)
              /\ emit' = EventNotice(line)
              /\ UNCHANGED board_lines
    /\ sent' = << >> /\ typed' = NoInput
    /\ UNCHANGED <<last_board, stop_event, mainVars, envVars, probe>>

\* the server keeps to the lines of a match
ReaderIdleRead == IdleRead(SessionLines)

\* the server sends any line
ReaderIdleAny == IdleRead(IdleLines)

\* the end-of-stream branch without its stop_event.set()
ReaderIdleEOFNoStop ==
    /\ ReaderAlive /\ rpc = "read"
    /\ srv_eof' = TRUE
    /\ emit' = Say({"connection closed by server"}, << >>)
    /\ rpc' = "closed"
    /\ sent' = << >> /\ typed' = NoInput
    /\ UNCHANGED <<board_lines, player_color, last_board, stop_event, mainVars, odd, colorama, probe>>

\* lines 131-135: readline() returns '' outside a frame
ReaderIdleEOF ==
    /\ ReaderAlive /\ rpc = "read"
    /\ srv_eof' = TRUE
    /\ emit' = Say({"connection closed by server"}, << >>)
    /\ stop_event' = TRUE
    /\ rpc' = "closed"
    /\ sent' = << >> /\ typed' = NoInput
    /\ UNCHANGED <<board_lines, player_color, last_board, mainVars, odd, colorama, probe>>

\* lines 143-147 (and 149-158 after the last one): the line l read inside a frame
FrameRead(l) ==
    /\ ReaderAlive /\ rpc = "frame"
    /\ sock = "open" /\ ~srv_eof
    /\ LET lines == Append(board_lines, RStrip(l, {"\n", "\r"})) IN
       /\ board_lines' = lines
       /\ IF Len(lines) = FrameLen
          THEN FinishFrame(lines)
          ELSE /\ rpc' = "frame" /\ emit' = Quiet /\ UNCHANGED last_board
    /\ sent' = << >> /\ typed' = NoInput
    /\ UNCHANGED <<player_color, stop_event, mainVars, srv_eof, colorama, probe>>

\* the server sends the snapshot row of this position
ReaderFrameRow ==
    /\ Len(board_lines) < Len(Snapshot)
    /\ FrameRead(SnapshotRow(Len(board_lines) + 1))
    /\ UNCHANGED odd

\* the server sends some other line in its place
ReaderFrameOdd ==
    /\ odd < MaxOdd
    /\ odd' = odd + 1
    /\ \E l \in OddLines : FrameRead(l)

\* lines 144-146, 149-158: readline() returns '' inside a frame
ReaderFrameEOF ==
    /\ ReaderAlive /\ rpc = "frame"
    /\ srv_eof' = TRUE
    /\ FinishFrame(board_lines)
    /\ sent' = << >> /\ typed' = NoInput
    /\ UNCHANGED <<board_lines, player_color, stop_event, mainVars, odd, colorama, probe>>

\* lines 194-197: readline() raises
ReaderError ==
    /\ ReaderAlive
    /\ rpc \in {"read", "frame"}
    /\ ~srv_eof
    /\ rpc' = "error"
    /\ emit' = IF stop_event THEN Quiet ELSE Say({"read loop error"}, << >>)
    /\ stop_event' = TRUE
    /\ sent' = << >> /\ typed' = NoInput
    /\ UNCHANGED <<board_lines, player_color, last_board, mainVars, envVars, probe>>

Reader == \/ ReaderLoopTest \/ ReaderIdleRead \/ ReaderIdleEOF
          \/ ReaderFrameRow \/ ReaderFrameEOF \/ ReaderError

(***************************************************************************)
(* main (200-337): the writes after connecting, the interactive loop and   *)
(* the finally block.                                                      *)
(*   mpc: "name" (255-256), "mode" (258-273), "loop" (the while test 276), *)
(*   "input" (blocked in input() 278), "finally" (327), "quit" (328-332),  *)
(*   "close" (333-337), "closed" (main returns), "exited" (the process is  *)
(*   gone), "crashed" (an exception left main outside the try block).      *)
(***************************************************************************)
MoveLike == FileChars \cup RankChars

\* lines 278-316 for one value returned by input(): what the iteration does
\* before the write at 317-319.  act is "continue", "break", "send" (cmd is
\* written next) or "raise" (an exception leaves the loop).
Turn(raw) ==
    LET line == Strip(raw)
        low  == Lower(line)
        up   == Upper(line)
        same == [act |-> "continue", cmd |-> << >>, ascii |-> ascii_only, say |-> Quiet]
        isff == low \in {<<"f","f">>, <<"f","o","r","f","e","i","t">>}
        cmd0 == IF isff THEN S_FF ELSE line
    IN
    IF line = << >> THEN same
    ELSE IF low \in {<<"q","u","i","t">>, <<"e","x","i","t">>} THEN [same EXCEPT !.act = "break"]
    ELSE IF ~isff /\ low = <<"a","s","c","i","i">>
    THEN [same EXCEPT !.ascii = TRUE,
                      !.say = Say({"switched to plain ASCII"}
                                    \cup (IF Truthy(last_board) THEN {"board"} ELSE {}),
                                  IF Truthy(last_board)
                                  THEN RemoveChar(last_board.text, "ESC") ELSE << >>)]
    ELSE IF low = <<"u","n","i","c","o","d","e">>
    THEN [same EXCEPT !.ascii = FALSE,
                      !.say = Say({"switched to colored unicode"}
                                    \cup (IF Truthy(last_board) THEN {"board"} ELSE {}),
                                  IF Truthy(last_board) THEN last_board.text ELSE << >>)]
    ELSE IF low = <<"r","e","d","r","a","w">>
    THEN [same EXCEPT !.say = IF Truthy(last_board)
                               THEN Say({"redraw"}, last_board.text)
                               ELSE Say({"no board yet"}, << >>)]
    ELSE IF StartsWith(up, S_MOVE_) \/ StartsWith(up, <<"N","A","M","E"," ">>) \/ up = S_FF
    THEN [same EXCEPT !.act = "send", !.cmd = cmd0]
    ELSE LET parsed == parse_algebraic(line) IN
         IF parsed.kind = "raise" THEN [same EXCEPT !.act = "raise"]
         ELSE IF parsed.kind = "ok"
         THEN [same EXCEPT !.act = "send", !.cmd = S_MOVE_ \o parsed.val]
         ELSE [same EXCEPT !.act = "send", !.cmd = cmd0,
                           !.say = IF \E i \in 1..Len(low) : low[i] \in MoveLike
                                   THEN Say({"hint"}, << >>) ELSE Quiet]

\* lines 254-256: the NAME registration; a failed write raises outside any try
MainSendName ==
    /\ mpc = "name"
    /\ \E ok \in BOOLEAN :
         IF ok THEN /\ sent' = S_NAME /\ mpc' = "mode" /\ UNCHANGED ending
               ELSE /\ sent' = << >> /\ mpc' = "crashed" /\ ending' = "setup write failed"
    /\ emit' = Quiet /\ typed' = NoInput
    /\ UNCHANGED <<readerVars, stop_event, quit_try, sock, ascii_only, envVars, probe>>

\* lines 258-273: the match-mode command; a failed write raises outside any try
MainSendMode ==
    /\ mpc = "mode"
    /\ \E ok \in BOOLEAN, cmd \in ModeCommands :
         IF ok THEN /\ sent' = cmd /\ mpc' = "loop" /\ UNCHANGED ending
               ELSE /\ sent' = << >> /\ mpc' = "crashed" /\ ending' = "setup write failed"
    /\ emit' = Quiet /\ typed' = NoInput
    /\ UNCHANGED <<readerVars, stop_event, quit_try, sock, ascii_only, envVars, probe>>

\* line 276: the while test
MainLoopTest ==
    /\ mpc = "loop"
    /\ IF stop_event THEN /\ mpc' = "finally" /\ ending' = "stop signal"
                     ELSE /\ mpc' = "input" /\ UNCHANGED ending
    /\ emit' = Quiet /\ sent' = << >> /\ typed' = NoInput
    /\ UNCHANGED <<readerVars, stop_event, quit_try, sock, ascii_only, envVars, probe>>

\* lines 278-322: input() returns a line drawn from `offered` and the
\* iteration runs to its end
InputFrom(offered) ==
    /\ mpc = "input"
    /\ \E raw \in offered, ok \in BOOLEAN :
         LET t == Turn(raw) IN
         /\ ascii_only' = t.ascii
         /\ typed' = raw
         /\ CASE t.act = "continue" ->
                   /\ ok /\ mpc' = "loop" /\ emit' = t.say /\ sent' = << >>
                   /\ UNCHANGED ending
              [] t.act = "break" ->
                   /\ ok /\ mpc' = "finally" /\ emit' = t.say /\ sent' = << >>
                   /\ ending' = "quit"
              [] t.act = "raise" ->
                   /\ ok /\ mpc' = "finally" /\ emit' = t.say /\ sent' = << >>
                   /\ ending' = "IndexError"
              [] t.act = "send" ->
                   IF ok
                   THEN /\ mpc' = "loop" /\ emit' = t.say /\ sent' = t.cmd
                        /\ UNCHANGED ending
                   ELSE /\ mpc' = "finally" /\ sent' = << >>
                        /\ emit' = Say(t.say.notes \cup {"Send failed"}, << >>)
                        /\ ending' = "send failed"
    /\ UNCHANGED <<readerVars, stop_event, quit_try, sock, envVars, probe>>

MainInput == InputFrom(UserLines)

\* the user keeps to a few commands
MainInputFew == InputFrom(FewUserLines)

\* the server sends frames only
ReaderIdleFrames == IdleRead(FrameOnlyLines)

\* lines 279-280: input() raises EOFError
MainInputEOF ==
    /\ mpc = "input"
    /\ mpc' = "finally" /\ ending' = "end of input"
    /\ emit' = Quiet /\ sent' = << >> /\ typed' = NoInput
    /\ UNCHANGED <<readerVars, stop_event, quit_try, sock, ascii_only, envVars, probe>>

\* lines 324-325: KeyboardInterrupt inside the try block
MainInterrupt ==
    /\ mpc \in {"loop", "input"}
    /\ mpc' = "finally" /\ ending' = "interrupt"
    /\ emit' = Quiet /\ sent' = << >> /\ typed' = NoInput
    /\ UNCHANGED <<readerVars, stop_event, quit_try, sock, ascii_only, envVars, probe>>

\* line 327
MainFinallySet ==
    /\ mpc = "finally"
    /\ stop_event' = TRUE
    /\ mpc' = "quit"
    /\ emit' = Quiet /\ sent' = << >> /\ typed' = NoInput
    /\ UNCHANGED <<readerVars, ending, quit_try, sock, ascii_only, envVars, probe>>

\* the QUIT write without its try/except: a failed write leaves main at once
MainQuitWriteUnguarded ==
    /\ mpc = "quit"
    /\ \E ok \in BOOLEAN :
         /\ sent' = IF ok THEN S_QUIT ELSE << >>
         /\ quit_try' = IF ok THEN "written" ELSE "failed"
         /\ mpc' = IF ok THEN "close" ELSE "exited"
    /\ emit' = Quiet /\ typed' = NoInput
    /\ UNCHANGED <<readerVars, stop_event, ending, sock, ascii_only, envVars, probe>>

\* lines 328-332: the best-effort QUIT
MainQuitWrite ==
    /\ mpc = "quit"
    /\ \E ok \in BOOLEAN :
         /\ sent' = IF ok THEN S_QUIT ELSE << >>
         /\ quit_try' = IF ok THEN "written" ELSE "failed"
    /\ mpc' = "close"
    /\ emit' = Quiet /\ typed' = NoInput
    /\ UNCHANGED <<readerVars, stop_event, ending, sock, ascii_only, envVars, probe>>

\* lines 333-337: shutdown (errors swallowed) and close
MainClose ==
    /\ mpc = "close"
    /\ sock' = "closed"
    /\ mpc' = "closed"
    /\ emit' = Quiet /\ sent' = << >> /\ typed' = NoInput
    /\ UNCHANGED <<readerVars, stop_event, ending, quit_try, ascii_only, envVars, probe>>

\* main returns (or re-raises the pending exception) and the process ends,
\* taking the daemon reader thread (251) with it
ProcessExit ==
    /\ mpc = "closed"
    /\ mpc' = "exited"
    /\ emit' = Quiet /\ sent' = << >> /\ typed' = NoInput
    /\ UNCHANGED <<readerVars, stop_event, ending, quit_try, sock, ascii_only, envVars, probe>>

Main == \/ MainSendName \/ MainSendMode \/ MainLoopTest \/ MainInput
        \/ MainInputEOF \/ MainInterrupt \/ MainFinallySet \/ MainQuitWrite
        \/ MainClose \/ ProcessExit

\* lines 238-252: the state when the reader thread has been started
Init ==
    /\ rpc = "test"
    /\ board_lines = << >>
    /\ player_color = NoColor
    /\ ascii_only = FALSE
    /\ last_board = NoBoard
    /\ stop_event = FALSE
    /\ mpc = "name"
    /\ ending = "none"
    /\ quit_try = "none"
    /\ sock = "open"
    /\ srv_eof = FALSE
    /\ odd = 0
    /\ colorama = TRUE
    /\ emit = Quiet
    /\ sent = << >>
    /\ typed = NoInput
    /\ probe = << >>

Next == Reader \/ Main

Spec == Init /\ [][Next]_vars

\* the reader alone, under a server that may send any line, while main is
\* blocked in input() (278); the display mode may have been switched before
ReaderInit ==
    /\ rpc = "test"
    /\ board_lines = << >>
    /\ player_color = NoColor
    /\ ascii_only \in BOOLEAN
    /\ last_board = NoBoard
    /\ stop_event = FALSE
    /\ mpc = "input"
    /\ ending = "none"
    /\ quit_try = "none"
    /\ sock = "open"
    /\ srv_eof = FALSE
    /\ odd = 0
    /\ colorama = TRUE
    /\ emit = Quiet
    /\ sent = << >>
    /\ typed = NoInput
    /\ probe = << >>

ReaderNext == \/ ReaderLoopTest \/ ReaderIdleAny \/ ReaderIdleEOF \/ ReaderFrameRow
              \/ ReaderFrameOdd \/ ReaderFrameEOF \/ ReaderError

ReaderSpec == ReaderInit /\ [][ReaderNext]_vars

\* the session from the moment the interactive loop is entered (275), with
\* a server that sends frames only and a user who keeps to a few commands
LoopInit ==
    /\ rpc = "test"
    /\ board_lines = << >>
    /\ player_color = NoColor
    /\ ascii_only = FALSE
    /\ last_board = NoBoard
    /\ stop_event = FALSE
    /\ mpc = "loop"
    /\ ending = "none"
    /\ quit_try = "none"
    /\ sock = "open"
    /\ srv_eof = FALSE
    /\ odd = 0
    /\ colorama = TRUE
    /\ emit = Quiet
    /\ sent = << >>
    /\ typed = NoInput
    /\ probe = << >>

LoopReader == \/ ReaderLoopTest \/ ReaderIdleFrames \/ ReaderIdleEOF
              \/ ReaderFrameRow \/ ReaderFrameEOF \/ ReaderError

LoopMain == \/ MainLoopTest \/ MainInputFew \/ MainInputEOF \/ MainInterrupt
            \/ MainFinallySet \/ MainQuitWrite \/ MainClose \/ ProcessExit

LoopNext == LoopReader \/ LoopMain

\* the steps that cannot block: the reader's while test, the read at line
\* 131 once the stream is over (readline returns '' at once), and the
\* finally block of main
StreamOver == srv_eof \/ sock = "closed"
ReaderAtEnd == StreamOver /\ ReaderIdleEOF
FairLoopSpec ==
    /\ LoopInit /\ [][LoopNext]_vars
    /\ WF_vars(ReaderLoopTest) /\ WF_vars(ReaderAtEnd)
    /\ WF_vars(MainFinallySet) /\ WF_vars(MainQuitWrite) /\ WF_vars(MainClose)

(***************************************************************************)
(* Properties.                                                             *)
(***************************************************************************)
(***************************************************************************)
(* parse_algebraic alone: main hands it one stripped, non-empty line (278- *)
(* 282, 309) and takes the result (310).                                   *)
(***************************************************************************)
\* characters of the lines: two files (b is also the bishop's letter in
\* lower case), three ranks, two piece letters and the marks x, + and =Q
ParseAlphabet == {"e", "b", "4", "5", "1", "N", "Q", "x", "+", "="}
ParseInputs == UNION {[1..n -> ParseAlphabet] : n \in 1..MaxParseLen}

Idle ==
    /\ rpc = "test" /\ board_lines = << >> /\ player_color = NoColor
    /\ ascii_only = FALSE /\ last_board = NoBoard /\ stop_event = FALSE
    /\ mpc = "input" /\ ending = "none" /\ quit_try = "none" /\ sock = "open"
    /\ srv_eof = FALSE /\ odd = 0 /\ colorama = TRUE
    /\ emit = Quiet /\ sent = << >> /\ typed = NoInput

ParseInit ==
    /\ Idle
    /\ \E line \in ParseInputs : probe = [in |-> line, done |-> FALSE, out |-> None]

\* line 309: parsed = parse_algebraic(line)
ParseCall ==
    /\ ~probe.done
    /\ probe' = [probe EXCEPT !.done = TRUE, !.out = parse_algebraic(probe.in)]
    /\ UNCHANGED <<readerVars, mainVars, envVars, stop_event, emit, sent, typed>>

ParseSpec == ParseInit /\ [][ParseCall]_vars

(***************************************************************************)
(* render_board alone, called as the reader calls it (155) on the lines of *)
(* a frame that may have been cut short (143-147).                         *)
(***************************************************************************)
\* a rank row with fewer than 9 tokens
ShortRow == <<"8"," ","r"," ","n">>
\* frames of 0 to 9 lines; line i is the snapshot's line i, or a malformed
\* line (a short rank row, an empty label row)
RenderInputs ==
    UNION {{[i \in 1..n |-> IF good[i] THEN Snapshot[i]
                            ELSE IF i = FrameLen THEN << >> ELSE ShortRow]
              : good \in [1..n -> BOOLEAN]} : n \in 0..FrameLen}

RenderInit ==
    /\ Idle
    /\ \E lines \in RenderInputs, flip \in BOOLEAN :
         probe = [lines |-> lines, flip |-> flip, done |-> FALSE, out |-> << >>]

\* line 155: rendered = render_board(board_lines, use_unicode=True,
\* colorize=True, flip=flip)
RenderCall ==
    /\ ~probe.done
    /\ probe' = [probe EXCEPT !.done = TRUE,
                              !.out = render_board(probe.lines, TRUE, TRUE, probe.flip)]
    /\ UNCHANGED <<readerVars, mainVars, envVars, stop_event, emit, sent, typed>>

RenderSpec == RenderInit /\ [][RenderCall]_vars

ReaderDone == rpc \in {"closed", "stopped", "error"}
InShutdown == mpc \in {"finally", "quit", "close", "closed", "exited"}
DisconnectNotice == "connection closed by server" \in emit.notes

\* C1: inside a board frame every line read is appended to the buffer as a
\* snapshot row and nothing else happens: playerColor is not written, no
\* event notice is printed, the buffer is not restarted; the frame ends
\* exactly when 9 lines are buffered, and the reader is then back in IDLE.
C1_FrameOfNine ==
    /\ [][(rpc = "frame" /\ board_lines' # board_lines) =>
            /\ Len(board_lines') = Len(board_lines) + 1
            /\ SubSeq(board_lines', 1, Len(board_lines)) = board_lines
            /\ player_color' = player_color
            /\ emit'.notes \subseteq {"board"}
            /\ rpc' = IF Len(board_lines') = 9 THEN "test" ELSE "frame"]_vars
    /\ [][(rpc = "read" /\ rpc' = "frame") => board_lines' = << >>]_vars
    /\ [](rpc = "frame" => Len(board_lines) < 9)

\* a frame of 9 lines that held a START BLACK line was consumed with the
\* colour left unset, and the line after it was handled as an event
C1_Witness ==
    /\ rpc = "test" /\ Len(board_lines) = 9
    /\ \E i \in 1..9 : board_lines[i] = <<"S","T","A","R","T"," ","B","L","A","C","K"," ","b","o","b">>
    /\ player_color = NoColor
    /\ "your move" \in emit.notes

\* C2 as stated: once a read has returned no data (also in the middle of a
\* frame) the reader eventually prints the disconnect notice.
C2_NoticeAlways == srv_eof ~> (rpc = "closed")

\* C2 amended: a read that returns no data in IDLE prints the notice, sets
\* the stop signal and ends the reader in that step; after the stream ended
\* inside a frame the reader, while the process lives, ends with the stop
\* signal set, and with the notice unless main began its shutdown first; a
\* reader that has ended changes nothing more; the stop signal is never
\* cleared.
C2_ReaderStops ==
    /\ [][(rpc = "read" /\ srv_eof' /\ rpc' # rpc) =>
            (DisconnectNotice' /\ stop_event' /\ rpc' = "closed")]_vars
    /\ srv_eof ~> ((stop_event /\ ReaderDone) \/ ~ReaderAlive)
    /\ srv_eof ~> (rpc = "closed" \/ InShutdown)
    /\ [][ReaderDone => UNCHANGED <<readerVars, srv_eof, odd>>]_vars
    /\ [][stop_event => stop_event']_vars

\* the stream ended inside a frame and the reader then printed the notice
C2_Witness ==
    /\ rpc = "closed" /\ DisconnectNotice /\ stop_event
    /\ last_board.some /\ Len(board_lines) \in 1..8

\* C3: once the reader has set the stop signal, the interactive loop takes
\* no further input and writes nothing but the final QUIT, also when the
\* signal was set while the loop was waiting in input().
C3_NoInputAfterStop ==
    [][(stop_event /\ rpc \in {"closed", "error"} /\ mpc \in {"loop", "input"}) =>
         (typed' = NoInput /\ sent' \in {<< >>, S_QUIT})]_vars

\* C4: when the interactive loop has ended, the stop signal is set before
\* the QUIT attempt, the QUIT attempt comes before the close, the socket is
\* closed whatever the QUIT write did, the process ends only after the close,
\* and the shutdown runs to the close.
C4_Order ==
    /\ (ending \notin {"none", "setup write failed"}) => InShutdown
    /\ mpc \in {"quit", "close", "closed", "exited"} => stop_event
    /\ mpc \in {"close", "closed", "exited"} => quit_try # "none"
    /\ mpc \in {"closed", "exited"} => sock = "closed"
    /\ sock = "closed" => (quit_try # "none" /\ stop_event)
    /\ mpc \in {"finally", "quit"} => quit_try = "none"
C4_Shutdown ==
    /\ []C4_Order
    /\ InShutdown ~> (sock = "closed")

\* the loop ended by an exception, the QUIT write failed, the socket is closed
C4_Witness ==
    /\ mpc = "exited" /\ ending = "IndexError"
    /\ quit_try = "failed" /\ sock = "closed" /\ stop_event

PieceLetters == {"P","R","N","B","Q","K","p","r","n","b","q","k"}
Glyphs == {UNICODE_MAP(<<c>>)[1] : c \in PieceLetters}
\* the piece symbols of a printed rank row, left to right
Symbols(out) ==
    LET IsSym(c) == c \in PieceLetters \cup Glyphs IN SelectSeq(out, IsSym)
\* the piece symbols a snapshot row shows, in received order
RowSymbols(raw, unicode) ==
    LET cells == Tail(Split(raw))
        shown == [k \in 1..Len(cells) |->
                    IF unicode /\ InUnicodeMap(cells[k]) THEN UNICODE_MAP(cells[k])[1]
                    ELSE cells[k][1]]
    IN  Symbols(shown)
\* text shows the 9 snapshot lines in received (flip = FALSE) or flipped
\* (flip = TRUE) orientation
InOrientation(text, lines, flip, unicode) ==
    LET out == LinesOf(text) IN
    /\ Len(out) = 9
    /\ \A i \in 1..8 :
         LET src  == lines[IF flip THEN 9 - i ELSE i]
             want == RowSymbols(src, unicode)
         IN  /\ Split(out[i])[1] = Split(src)[1]
             /\ Symbols(out[i]) = IF flip THEN Reverse(want) ELSE want
    /\ Split(out[9]) = IF flip THEN Reverse(Split(lines[9])) ELSE Split(lines[9])

FrameDone == rpc = "frame" /\ rpc' = "test" /\ Len(board_lines') = 9

\* C5: every complete frame is stored and printed flipped exactly when
\* playerColor is BLACK, in both display modes.
C5_FlipIffBlack ==
    [][FrameDone =>
         /\ InOrientation(last_board'.text, board_lines',
                          player_color = <<"B","L","A","C","K">>, ~ascii_only)
         /\ emit'.text = last_board'.text]_vars

\* C6: a frame cut short by the end of the stream is not stored as the last
\* board.
C6_PartialNotStored ==
    [][(rpc = "frame" /\ rpc' = "test" /\ Len(board_lines') < 9) =>
         last_board' = last_board]_vars

\* C7: in plain-ASCII mode a redraw of a complete frame prints no
\* colour-control sequence.
C7_RedrawPlain ==
    (ascii_only /\ "redraw" \in emit.notes /\ Len(LinesOf(emit.text)) = 9) =>
        "ESC" \notin Range(emit.text)

LocalCommands == {<<"q","u","i","t">>, <<"e","x","i","t">>, <<"f","f">>, <<"f","o","r","f","e","i","t">>, <<"a","s","c","i","i">>,
                  <<"u","n","i","c","o","d","e">>, <<"r","e","d","r","a","w">>}
ResemblesMove(line) == \E i \in 1..Len(line) : LowerChar(line[i]) \in MoveLike

\* C8: text that is no local command, that the normalizer cannot parse and
\* that does not resemble a move causes no outbound line.
C8_IgnoredUnlessMoveLike ==
    (/\ typed # NoInput
     /\ Strip(typed) # << >>
     /\ Lower(Strip(typed)) \notin LocalCommands
     /\ parse_algebraic(typed).kind = "none"
     /\ ~ResemblesMove(typed)) => sent = << >>

\* C9: the normalizer returns a coordinate string or unparseable for every
\* input, so no input line ends the loop through its exception.
C9_NormalizerTotal ==
    typed # NoInput =>
        (parse_algebraic(typed).kind \in {"ok", "none"} /\ ending # "IndexError")

\* C10: the process never ends after a failed write without the socket
\* having been closed.
C10_WriteFailureCloses ==
    mpc \in {"exited", "crashed"} => sock = "closed"

\* C11: 'ascii', 'unicode' and 'redraw' in any letter case write nothing and
\* the loop goes on; 'ff' and 'forfeit' write the one line 'FF' (nothing when
\* the write itself fails, which ends the loop); 'quit' and 'exit' write
\* nothing, and shutdown writes nothing but 'QUIT'.
C11_LocalCommands ==
    /\ typed # NoInput =>
         LET low == Lower(Strip(typed)) IN
         /\ low \in {<<"a","s","c","i","i">>, <<"u","n","i","c","o","d","e">>, <<"r","e","d","r","a","w">>} =>
                (sent = << >> /\ mpc = "loop" /\ ending = "none")
         /\ low \in {<<"f","f">>, <<"f","o","r","f","e","i","t">>} =>
                \/ sent = <<"F","F">> /\ mpc = "loop"
                \/ sent = << >> /\ ending = "send failed" /\ "Send failed" \in emit.notes
         /\ low \in {<<"q","u","i","t">>, <<"e","x","i","t">>} =>
                (sent = << >> /\ mpc = "finally" /\ ending = "quit")
    /\ InShutdown => sent \in {<< >>, <<"Q","U","I","T">>}

\* 'Forfeit' was typed and the line 'FF' was written
C11_Witness ==
    /\ typed = <<"F","o","r","f","e","i","t">> /\ sent = <<"F","F">> /\ mpc = "loop"

\* the coordinate form <file><rank><file><rank>, with any suffix
CoordinateForm(s) ==
    /\ Len(s) >= 4
    /\ s[1] \in FileChars /\ s[2] \in RankChars
    /\ s[3] \in FileChars /\ s[4] \in RankChars

\* C12: every line written that is a Move command, in any letter case,
\* carries an argument in coordinate form.
C12_MoveArgumentNormalized ==
    StartsWith(Upper(sent), <<"M","O","V","E"," ">>) => CoordinateForm(From(sent, 5))

\* C13: playerColor is WHITE, BLACK or unknown in every state, whatever
\* lines the server sends, and only the reader's handling of a START line
\* writes it.
C13_ColorDomain ==
    /\ [](player_color \in {NoColor, <<"W","H","I","T","E">>, <<"B","L","A","C","K">>})
    /\ [][player_color' # player_color =>
            (rpc = "read" /\ "match started" \in emit'.notes)]_vars

\* C14: text whose first four characters are file, rank, file, rank, with
\* any suffix, is returned unchanged.
C14_CoordinateUnchanged ==
    (probe.done /\ CoordinateForm(probe.in)) => probe.out = Ok(probe.in)

\* a coordinate move with a suffix came back as it went in
C14_Witness ==
    /\ probe.done /\ probe.in = <<"e","4","e","5","b">>
    /\ probe.out = [kind |-> "ok", val |-> <<"e","4","e","5","b">>]

\* C15: every result that is not unparseable has at least 4 characters, the
\* first four being file, rank, file, rank.
C15_ResultIsCoordinate ==
    (probe.done /\ probe.out.kind = "ok") => CoordinateForm(probe.out.val)

RECURSIVE DropPromotions(_)
DropPromotions(u) ==
    IF u = << >> THEN << >>
    ELSE IF Len(u) >= 2 /\ u[1] = "=" /\ u[2] \in {"Q","R","B","N"}
    THEN DropPromotions(SubSeq(u, 3, Len(u)))
    ELSE <<u[1]>> \o DropPromotions(Tail(u))
WithoutMarks(t) ==
    LET Plain(c) == c \notin {"x", "+", "#"} IN DropPromotions(SelectSeq(t, Plain))

\* C17: text that is a destination square once the marks are stripped gives
\* file, start rank, file, destination rank; the start rank is 2 for rank 3
\* or 4, 7 for rank 5 or 6, and 2 for every other rank.
C17_PawnMoves ==
    LET m == WithoutMarks(probe.in) IN
    (probe.done /\ Len(m) = 2 /\ m[1] \in FileChars /\ m[2] \in RankChars) =>
        probe.out = [kind |-> "ok",
                     val  |-> <<m[1],
                                CASE m[2] \in {"3", "4"} -> "2"
                                  [] m[2] \in {"5", "6"} -> "7"
                                  [] OTHER -> "2",
                                m[1], m[2]>>]

\* a capture with check on rank 5 starts from rank 7
C17_Witness ==
    /\ probe.done /\ probe.in = <<"x","e","5","+">>
    /\ probe.out = [kind |-> "ok", val |-> <<"e","7","e","5">>]

\* the text with every x, + and # removed
WithoutCaptureCheck(t) ==
    LET Plain(c) == c \notin {"x", "+", "#"} IN SelectSeq(t, Plain)

\* C20: for text that is not in coordinate form the result is the result for
\* the text with every x, + and # removed.
C20_MarksIrrelevant ==
    (probe.done /\ ~CoordinateForm(probe.in)) =>
        probe.out = parse_algebraic(WithoutCaptureCheck(probe.in))

\* the background code and the symbol of the cell at displayed position k
\* (from 0) of a printed rank row: rank, ' ', then 8 cells of 9 characters
CellBackground(row, k) == row[4 + 9 * k]
CellSymbol(row, k) == row[8 + 9 * k]

\* C18: in a rendered 9-line snapshot the cell of the square with file index
\* f (from file a) and rank r is dark exactly when f + r is odd, with and
\* without flip; a1 is dark in both.
C18_ColourAnchored ==
    (probe.done /\ Len(probe.lines) = 9) =>
        LET out == LinesOf(probe.out) IN
        \A j \in 1..8 :
            LET src == Split(probe.lines[j]) IN
            Len(src) = 9 =>
                LET r   == DecVal(src[1])
                    row == out[IF probe.flip THEN 9 - j ELSE j]
                IN  /\ row[1] = src[1][1]
                    /\ \A f \in 0..7 :
                          LET k == IF probe.flip THEN 7 - f ELSE f IN
                          /\ CellBackground(row, k) =
                                 IF (f + r) % 2 = 1 THEN "[44m" ELSE "[47m"
                          /\ CellSymbol(row, k) =
                                 IF src[f + 2] = <<".">> THEN " "
                                 ELSE UNICODE_MAP(src[f + 2])[1]

\* the start position rendered flipped: a1, the white rook's square, is the
\* last cell of the top row and dark
C18_Witness ==
    /\ probe.done /\ probe.flip /\ probe.lines = Snapshot
    /\ LET row == LinesOf(probe.out)[1] IN
       /\ row[1] = "1"
       /\ CellBackground(row, 7) = "[44m" /\ CellSymbol(row, 7) = "U+2656"

\* the printed line of each malformed rank row is the row as received
MalformedRowsRaw ==
    LET n   == Len(probe.lines)
        nb  == IF n = 9 THEN 8 ELSE n
        out == LinesOf(probe.out)
    IN  \A j \in 1..nb :
            Len(Split(probe.lines[j])) < 9 =>
                out[IF probe.flip THEN nb + 1 - j ELSE j] = probe.lines[j]

\* C19 as stated: the output has as many lines as the snapshot has rows, for
\* 0 to 9 rows, and a malformed rank row is printed raw.
C19_LinePerRow ==
    probe.done =>
        /\ Len(LinesOf(probe.out)) = Len(probe.lines)
        /\ MalformedRowsRaw

\* C19 amended: a snapshot of 9 rows gives 9 lines; one of k < 9 rows gives
\* k + 1 lines, the k rows and a file-label line; a malformed rank row is
\* printed raw.
C19_LinesAndLabel ==
    probe.done =>
        /\ Len(LinesOf(probe.out)) =
              IF Len(probe.lines) = 9 THEN 9 ELSE Len(probe.lines) + 1
        /\ MalformedRowsRaw

\* three rows, one of them malformed, rendered flipped into four lines
C19_Witness ==
    /\ probe.done /\ probe.flip
    /\ probe.lines = <<Snapshot[1], ShortRow, Snapshot[3]>>
    /\ LET out == LinesOf(probe.out) IN
       /\ Len(out) = 4 /\ out[2] = ShortRow /\ out[4] = FlippedLabels

====
